---- MODULE Spec2Model ----
(***************************************************************************)
(* Signing-key lifecycle and token verification of the backend:            *)
(*   backend/app/core/security.py  (key registry, rotation, issue, verify) *)
(*   backend/app/core/rsa_keys.py  (RSAKeyManager: key files on disk)      *)
(* Dictionaries are functions from field names to values, the key          *)
(* directory is a function from file paths to file contents, threads are   *)
(* program counters, and the clock is a counter of whole seconds.          *)
(***************************************************************************)
EXTENDS Integers, Sequences, FiniteSets, TLC

\* ---------------------------------------------------------------- bounds
\* Spec: calls run one after another, as in the test suite
MaxTime == 1
MaxRotations == 2
MaxFaults == 1
\* SpecThreads: the calls of the two threads interleave
ThreadTime == 1
ThreadRotations == 2
ThreadFaults == 1
\* SpecDeep: rotations only, enough of them to fill the archive
DeepTime == 1
DeepRotations == 6
DeepFaults == 1

\* ------------------------------------------------------ program constants
ArchiveCap == 5                       \* security.py:90
AccessTokenExpireMinutes == 30        \* config.py:33
RefreshTokenExpireDays == 7           \* config.py:34
SecondsPerMinute == 60
SecondsPerDay == 86400

\* threads: one rotates the keys (the administrator's request), one issues
\* and verifies tokens (a user's request)
Rotators == {"rotator"}
Workers == {"worker"}
NoThread == "nobody"

\* ------------------------------------------------------------ Python values
None == "None"
EmptyDict == [k \in {} |-> None]
Get(d, k) == IF k \in DOMAIN d THEN d[k] ELSE None
GetDefault(d, k, dflt) == IF k \in DOMAIN d THEN d[k] ELSE dflt
Update(d, e) == [k \in (DOMAIN d) \cup (DOMAIN e) |-> IF k \in DOMAIN e THEN e[k] ELSE d[k]]
Truthy(v) == v # None /\ v # ""
NonEmpty(d) == DOMAIN d # {}

\* PEM texts of the n-th key pair the process generated
PrivatePem(n) == "private_pem_" \o ToString(n)
PublicPem(n) == "public_pem_" \o ToString(n)

\* f"key_{int(time.time())}"
KeyIdAt(t) == "key_" \o ToString(t)

\* ------------------------------------------------------------- key files
PrivateKeyPath == "private_key.pem"
PublicKeyPath == "public_key.pem"
PrivateArchivePath(t) == "archive/private_key_" \o ToString(t) \o ".pem"
PublicArchivePath(t) == "archive/public_key_" \o ToString(t) \o ".pem"

\* a file that open() creates gets 0666 less the umask (022): 0644
CreatedMode == "0644"
OwnerOnly == "0600"

Exists(f, p) == p \in DOMAIN f
WriteText(f, p, text) == Update(f, p :> text)
\* write_text keeps the mode of a file that exists and creates it otherwise
WriteMode(m, p) == IF Exists(m, p) THEN m ELSE Update(m, p :> CreatedMode)
\* os.chmod(path, 0o600)
Chmod(m, p) == Update(m, p :> OwnerOnly)

\* key_manager.load_keys(): it raises FileNotFoundError unless both active
\* files exist, and returns their texts
KeysOnDisk(f) == Exists(f, PrivateKeyPath) /\ Exists(f, PublicKeyPath)
LoadKeys(f) == <<f[PrivateKeyPath], f[PublicKeyPath]>>
Unlink(f, p) == [q \in (DOMAIN f) \ {p} |-> f[q]]
Rename(f, src, dst) == [q \in ((DOMAIN f) \ {src}) \cup {dst} |-> IF q = dst THEN f[src] ELSE f[q]]

VARIABLES
    now,            \* time.time(), in whole seconds
    current,        \* _current_keys
    archived,       \* _archived_keys
    lock,           \* owner of _key_lock, NoThread when free
    files,          \* the key directory: path -> text
    modes,          \* the permission bits of each file: path -> mode
    keysMade,       \* key pairs generated so far (names the next PEM texts)
    budget,         \* the run: rotate calls and I/O faults left, last second, threading
    pcR,            \* where each rotating thread is in rotate_jwt_keys
    newKeys,        \* (new_private, new_public) of each rotating thread
    rotResult,      \* last return value of rotate_jwt_keys, per thread
    entryReg,       \* the registry when the thread's last call took the lock
    exitReg,        \* the registry when the thread's last call returned
    pcW,            \* where each worker thread is
    args,           \* arguments of the worker's call in progress
    token,          \* the token the worker holds
    publicKey,      \* public_key local of verify_token
    view,           \* the registry as _find_key_for_token read it
    verified,       \* return value of the worker's last verify_token
    since,          \* rotate calls returned since the worker's token was signed
    restarts        \* process restarts while the worker held its token

regVars == <<current, archived>>
rotVars == <<pcR, newKeys, rotResult, entryReg, exitReg>>
workerVars == <<pcW, args, token, publicKey, view, verified, since, restarts>>
vars == <<now, current, archived, lock, files, modes, keysMade, budget, pcR,
          newKeys,
          rotResult, entryReg, exitReg, pcW, args, token, publicKey, view,
          verified, since, restarts>>

Registry == [current |-> current, archived |-> archived]

\* --------------------------------------------------------------- start-up
NoToken == [alg |-> None]
NoArgs == [op |-> None]
NoResult == [status |-> None]
NoRegistry == [current |-> EmptyDict, archived |-> <<>>]

\* security.py 26-40: the keys were loaded or generated and saved
BootOk ==
    /\ current = [private |-> PrivatePem(1), public |-> PublicPem(1),
                  created_at |-> 0, key_id |-> "initial"]
    /\ files = (PrivateKeyPath :> PrivatePem(1)) @@ (PublicKeyPath :> PublicPem(1))
    /\ modes = (PrivateKeyPath :> OwnerOnly) @@ (PublicKeyPath :> CreatedMode)

\* security.py 37-40: initialize_keys raised; _current_keys stays {}.
\* save_keys wrote nothing, or wrote the private key and failed after it: at
\* the chmod, or at the public key file.
BootFailed ==
    /\ current = EmptyDict
    /\ \/ files = EmptyDict /\ modes = EmptyDict
       \/ /\ files = (PrivateKeyPath :> PrivatePem(1))
          /\ modes \in {(PrivateKeyPath :> CreatedMode), (PrivateKeyPath :> OwnerOnly)}

InitWith(calls, faults, seconds, interleave, rotators, workers) ==
    /\ now = 0
    /\ archived = <<>>
    /\ lock = NoThread
    /\ keysMade = 1
    /\ BootOk \/ BootFailed
    /\ budget = [calls |-> calls, faults |-> faults, seconds |-> seconds,
                 interleave |-> interleave]
    /\ pcR = [r \in rotators |-> "idle"]
    /\ newKeys = [r \in rotators |-> None]
    /\ rotResult = [r \in rotators |-> NoResult]
    /\ entryReg = [r \in rotators |-> NoRegistry]
    /\ exitReg = [r \in rotators |-> NoRegistry]
    /\ pcW = [w \in workers |-> "idle"]
    /\ args = [w \in workers |-> NoArgs]
    /\ token = [w \in workers |-> NoToken]
    /\ publicKey = [w \in workers |-> None]
    /\ view = [w \in workers |-> NoRegistry]
    /\ verified = [w \in workers |-> None]
    /\ since = [w \in workers |-> [ok |-> 0, failed |-> 0]]
    /\ restarts = [w \in workers |-> 0]

Init == InitWith(MaxRotations, MaxFaults, MaxTime, FALSE, Rotators, Workers)

\* -------------------------------------------------------------- scheduling
\* A thread between two calls. When the run does not interleave threads, a
\* thread takes a step only while every other thread is between calls, and
\* the clock reaches its next second between calls.
Resting(t) ==
    IF t \in DOMAIN pcR THEN pcR[t] = "idle"
    ELSE pcW[t] \in {"idle", "holding", "verified"}

Scheduled(t) ==
    budget.interleave \/ \A u \in (DOMAIN pcR \cup DOMAIN pcW) \ {t} : Resting(u)

\* ------------------------------------------------------------------ clock
Tick ==
    /\ now < budget.seconds
    /\ Scheduled("clock")
    /\ now' = now + 1
    /\ UNCHANGED <<current, archived, lock, files, modes, keysMade, budget>>
    /\ UNCHANGED rotVars
    /\ UNCHANGED workerVars

\* ------------------------------------------------------- rotate_jwt_keys
Fault == budget.faults > 0
SpendFault == [budget EXCEPT !.faults = @ - 1]

GoR(r, to) == pcR' = [pcR EXCEPT ![r] = to]

\* a thread calls rotate_jwt_keys() and waits for _key_lock
RotCall(r) ==
    /\ pcR[r] = "idle"
    /\ Scheduled(r)
    /\ budget.calls > 0
    /\ budget' = [budget EXCEPT !.calls = @ - 1]
    /\ GoR(r, "lock")
    /\ UNCHANGED <<now, current, archived, lock, files, modes, keysMade>>
    /\ UNCHANGED <<newKeys, rotResult, entryReg, exitReg>>
    /\ UNCHANGED workerVars

\* with _key_lock:
RotAcquire(r) ==
    /\ pcR[r] = "lock"
    /\ Scheduled(r)
    /\ lock = NoThread
    /\ lock' = r
    /\ entryReg' = [entryReg EXCEPT ![r] = Registry]
    /\ GoR(r, "archive")
    /\ UNCHANGED <<now, current, archived, files, modes, keysMade, budget>>
    /\ UNCHANGED <<newKeys, rotResult, exitReg>>
    /\ UNCHANGED workerVars

\* {**_current_keys, "archived_at": time.time(), "status": "archived"}
ArchivedKey(cur, t) == Update(cur, [archived_at |-> t, status |-> "archived"])

\* an archival that puts the outgoing key at the front of the list
RotArchivePrepend(r) ==
    /\ pcR[r] = "archive"
    /\ Scheduled(r)
    /\ archived' = IF NonEmpty(current)
                   THEN <<ArchivedKey(current, now)>> \o archived
                   ELSE archived
    /\ GoR(r, "km_archive")
    /\ UNCHANGED <<now, current, lock, files, modes, keysMade, budget>>
    /\ UNCHANGED <<newKeys, rotResult, entryReg, exitReg>>
    /\ UNCHANGED workerVars

\* if _current_keys: _archived_keys.append(archived_key)
RotArchiveCurrent(r) ==
    /\ pcR[r] = "archive"
    /\ Scheduled(r)
    /\ archived' = IF NonEmpty(current)
                   THEN Append(archived, ArchivedKey(current, now))
                   ELSE archived
    /\ GoR(r, "km_archive")
    /\ UNCHANGED <<now, current, lock, files, modes, keysMade, budget>>
    /\ UNCHANGED <<newKeys, rotResult, entryReg, exitReg>>
    /\ UNCHANGED workerVars

\* if private_archive_path.exists(): unlink(); the same for the public one
ArchiveCleared(f, t) ==
    LET g == IF Exists(f, PrivateArchivePath(t)) THEN Unlink(f, PrivateArchivePath(t)) ELSE f
    IN  IF Exists(g, PublicArchivePath(t)) THEN Unlink(g, PublicArchivePath(t)) ELSE g

\* key_manager.rotate_keys(), first half: move the key files to archive/,
\* under the names of the current second
KmArchive(r) ==
    /\ pcR[r] = "km_archive"
    /\ Scheduled(r)
    /\ \/ /\ ~Exists(files, PrivateKeyPath)
          /\ GoR(r, "km_generate")
          /\ UNCHANGED <<files, modes, budget>>
       \/ /\ Exists(files, PrivateKeyPath)
          /\ Exists(files, PublicKeyPath)
          /\ files' = Rename(Rename(ArchiveCleared(files, now),
                                    PrivateKeyPath, PrivateArchivePath(now)),
                             PublicKeyPath, PublicArchivePath(now))
          /\ modes' = Rename(Rename(ArchiveCleared(modes, now),
                                    PrivateKeyPath, PrivateArchivePath(now)),
                             PublicKeyPath, PublicArchivePath(now))
          /\ GoR(r, "km_generate")
          /\ UNCHANGED budget
       \/ \* the public key file is missing: its rename raises FileNotFoundError
          /\ Exists(files, PrivateKeyPath)
          /\ ~Exists(files, PublicKeyPath)
          /\ files' = Rename(ArchiveCleared(files, now), PrivateKeyPath, PrivateArchivePath(now))
          /\ modes' = Rename(ArchiveCleared(modes, now), PrivateKeyPath, PrivateArchivePath(now))
          /\ GoR(r, "except")
          /\ UNCHANGED budget
       \/ \* mkdir or the first rename raises OSError
          /\ Exists(files, PrivateKeyPath)
          /\ Fault
          /\ budget' = SpendFault
          /\ GoR(r, "except")
          /\ UNCHANGED <<files, modes>>
       \/ \* the second rename raises OSError
          /\ Exists(files, PrivateKeyPath)
          /\ Exists(files, PublicKeyPath)
          /\ Fault
          /\ budget' = SpendFault
          /\ files' = Rename(ArchiveCleared(files, now), PrivateKeyPath, PrivateArchivePath(now))
          /\ modes' = Rename(ArchiveCleared(modes, now), PrivateKeyPath, PrivateArchivePath(now))
          /\ GoR(r, "except")
    /\ UNCHANGED <<now, current, archived, lock, keysMade>>
    /\ UNCHANGED <<newKeys, rotResult, entryReg, exitReg>>
    /\ UNCHANGED workerVars

\* initialize_keys(force_regenerate=True): generate_key_pair()
KmGenerate(r) ==
    /\ pcR[r] = "km_generate"
    /\ Scheduled(r)
    /\ \/ /\ keysMade' = keysMade + 1
          /\ newKeys' = [newKeys EXCEPT ![r] = <<PrivatePem(keysMade + 1), PublicPem(keysMade + 1)>>]
          /\ GoR(r, "km_save")
          /\ UNCHANGED budget
       \/ /\ Fault
          /\ budget' = SpendFault
          /\ GoR(r, "except")
          /\ UNCHANGED <<keysMade, newKeys>>
    /\ UNCHANGED <<now, current, archived, lock, files, modes>>
    /\ UNCHANGED <<rotResult, entryReg, exitReg>>
    /\ UNCHANGED workerVars

\* save_keys(private_key, public_key)
KmSave(r) ==
    /\ pcR[r] = "km_save"
    /\ Scheduled(r)
    /\ \/ /\ files' = WriteText(WriteText(files, PrivateKeyPath, newKeys[r][1]),
                                PublicKeyPath, newKeys[r][2])
          /\ modes' = WriteMode(Chmod(WriteMode(modes, PrivateKeyPath), PrivateKeyPath),
                                PublicKeyPath)
          /\ GoR(r, "install")
          /\ UNCHANGED budget
       \/ \* mkdir or opening the private key file raises
          /\ Fault
          /\ budget' = SpendFault
          /\ GoR(r, "except")
          /\ UNCHANGED <<files, modes>>
       \/ \* chmod raises
          /\ Fault
          /\ budget' = SpendFault
          /\ files' = WriteText(files, PrivateKeyPath, newKeys[r][1])
          /\ modes' = WriteMode(modes, PrivateKeyPath)
          /\ GoR(r, "except")
       \/ \* writing the public key file raises
          /\ Fault
          /\ budget' = SpendFault
          /\ files' = WriteText(files, PrivateKeyPath, newKeys[r][1])
          /\ modes' = Chmod(WriteMode(modes, PrivateKeyPath), PrivateKeyPath)
          /\ GoR(r, "except")
    /\ UNCHANGED <<now, current, archived, lock, keysMade>>
    /\ UNCHANGED <<newKeys, rotResult, entryReg, exitReg>>
    /\ UNCHANGED workerVars

\* save_keys one system call at a time, as another process sees the key
\* directory: private_key_path.write_text(private_key)
SaveWritePrivate(r) ==
    /\ pcR[r] = "km_save"
    /\ Scheduled(r)
    /\ \/ /\ files' = WriteText(files, PrivateKeyPath, newKeys[r][1])
          /\ modes' = WriteMode(modes, PrivateKeyPath)
          /\ GoR(r, "save_chmod")
          /\ UNCHANGED budget
       \/ \* mkdir or opening the private key file raises
          /\ Fault
          /\ budget' = SpendFault
          /\ GoR(r, "except")
          /\ UNCHANGED <<files, modes>>
    /\ UNCHANGED <<now, current, archived, lock, keysMade>>
    /\ UNCHANGED <<newKeys, rotResult, entryReg, exitReg>>
    /\ UNCHANGED workerVars

\* os.chmod(self.private_key_path, 0o600)
SaveChmod(r) ==
    /\ pcR[r] = "save_chmod"
    /\ Scheduled(r)
    /\ \/ /\ modes' = Chmod(modes, PrivateKeyPath)
          /\ GoR(r, "save_public")
          /\ UNCHANGED budget
       \/ \* chmod raises
          /\ Fault
          /\ budget' = SpendFault
          /\ GoR(r, "except")
          /\ UNCHANGED modes
    /\ UNCHANGED <<now, current, archived, lock, files, keysMade>>
    /\ UNCHANGED <<newKeys, rotResult, entryReg, exitReg>>
    /\ UNCHANGED workerVars

\* self.public_key_path.write_text(public_key)
SaveWritePublic(r) ==
    /\ pcR[r] = "save_public"
    /\ Scheduled(r)
    /\ \/ /\ files' = WriteText(files, PublicKeyPath, newKeys[r][2])
          /\ modes' = WriteMode(modes, PublicKeyPath)
          /\ GoR(r, "install")
          /\ UNCHANGED budget
       \/ \* writing the public key file raises
          /\ Fault
          /\ budget' = SpendFault
          /\ GoR(r, "except")
          /\ UNCHANGED <<files, modes>>
    /\ UNCHANGED <<now, current, archived, lock, keysMade>>
    /\ UNCHANGED <<newKeys, rotResult, entryReg, exitReg>>
    /\ UNCHANGED workerVars

\* key_id = f"key_{int(time.time())}"; _current_keys.update({...})
Installed(cur, keys, t) ==
    Update(cur, [private |-> keys[1], public |-> keys[2], created_at |-> t,
                 key_id |-> KeyIdAt(t), status |-> "active"])

RotInstall(r) ==
    /\ pcR[r] = "install"
    /\ Scheduled(r)
    /\ current' = Installed(current, newKeys[r], now)
    /\ GoR(r, "trim")
    /\ UNCHANGED <<now, archived, lock, files, modes, keysMade, budget>>
    /\ UNCHANGED <<newKeys, rotResult, entryReg, exitReg>>
    /\ UNCHANGED workerVars

\* an archive that is never trimmed
KeepAll(arch) == arch

\* a trim that removes the newest entry instead of the oldest
TrimmedNewest(arch) ==
    IF Len(arch) > ArchiveCap THEN SubSeq(arch, 1, Len(arch) - 1) ELSE arch

\* if len(_archived_keys) > 5: _archived_keys.pop(0)
Trimmed(arch) == IF Len(arch) > ArchiveCap THEN Tail(arch) ELSE arch

RotTrim(r) ==
    /\ pcR[r] = "trim"
    /\ Scheduled(r)
    /\ archived' = Trimmed(archived)
    /\ GoR(r, "return")
    /\ UNCHANGED <<now, current, lock, files, modes, keysMade, budget>>
    /\ UNCHANGED <<newKeys, rotResult, entryReg, exitReg>>
    /\ UNCHANGED workerVars

CountReturn(ok) ==
    since' = [w \in DOMAIN pcW |->
                IF pcW[w] \notin {"holding", "verify_lock"}
                THEN since[w]
                ELSE IF ok THEN [since[w] EXCEPT !.ok = @ + 1]
                     ELSE [since[w] EXCEPT !.failed = @ + 1]]

\* return {"key_id": key_id, "created_at": ..., "status": "success"}
RotReturn(r) ==
    /\ pcR[r] = "return"
    /\ Scheduled(r)
    /\ rotResult' = [rotResult EXCEPT ![r] =
                        [key_id |-> current.key_id, created_at |-> current.created_at,
                         status |-> "success"]]
    /\ exitReg' = [exitReg EXCEPT ![r] = Registry]
    /\ lock' = NoThread
    /\ GoR(r, "idle")
    /\ CountReturn(TRUE)
    /\ UNCHANGED <<now, current, archived, files, modes, keysMade, budget>>
    /\ UNCHANGED <<newKeys, entryReg>>
    /\ UNCHANGED <<pcW, args, token, publicKey, view, verified, restarts>>

\* except Exception as e: return {"status": "error", "error": str(e)}
RotExcept(r) ==
    /\ pcR[r] = "except"
    /\ Scheduled(r)
    /\ rotResult' = [rotResult EXCEPT ![r] = [status |-> "error"]]
    /\ exitReg' = [exitReg EXCEPT ![r] = Registry]
    /\ lock' = NoThread
    /\ GoR(r, "idle")
    /\ CountReturn(FALSE)
    /\ UNCHANGED <<now, current, archived, files, modes, keysMade, budget>>
    /\ UNCHANGED <<newKeys, entryReg>>
    /\ UNCHANGED <<pcW, args, token, publicKey, view, verified, restarts>>

\* ------------------------------------------------------------------ tokens
JwtSecretKey == "jwt_secret"          \* settings.JWT_SECRET_KEY

\* str(subject): a token carries the text of the subject it was issued for
Str(s) == IF "int" \in DOMAIN s THEN ToString(s.int) ELSE s.str

Subjects == {[int |-> 42], [str |-> "user-42"]}
Kinds == {"access", "refresh"}
NoDelta == [given |-> FALSE]
Delta(d) == [given |-> TRUE, seconds |-> d]
Deltas == {NoDelta, Delta(-1), Delta(1)}

DefaultLifetime(kind) ==
    IF kind = "access" THEN AccessTokenExpireMinutes * SecondsPerMinute
    ELSE RefreshTokenExpireDays * SecondsPerDay

\* if expires_delta: now + expires_delta   else: now + the configured lifetime
Expire(kind, d, t) ==
    IF d.given /\ d.seconds # 0 THEN t + d.seconds ELSE t + DefaultLifetime(kind)

\* jwt.encode(to_encode, key, algorithm)
Encode(claims, key, alg) ==
    [alg |-> alg, signer |-> key, exp |-> claims.exp, sub |-> claims.sub,
     type |-> claims.type, kid |-> claims.kid]

\* a signing that puts no kid into the token
SignWithoutKid(current_keys, subject, kind, expire) ==
    LET to_encode == [exp |-> expire, sub |-> Str(subject), type |-> kind, kid |-> None]
    IN  IF Truthy(Get(current_keys, "private"))
        THEN Encode(to_encode, current_keys.private, "RS256")
        ELSE Encode(to_encode, JwtSecretKey, "HS256")

\* to_encode and the choice of RS256 or HS256, from one copy of _current_keys
SignWith(current_keys, subject, kind, expire) ==
    LET to_encode == [exp |-> expire, sub |-> Str(subject), type |-> kind,
                      kid |-> GetDefault(current_keys, "key_id", "fallback")]
    IN  IF Truthy(Get(current_keys, "private"))
        THEN Encode(to_encode, current_keys.private, "RS256")
        ELSE Encode(to_encode, JwtSecretKey, "HS256")

\* the public PEM text belongs to the private PEM text that signed
Matches(pub, priv) ==
    \E n \in 1..keysMade : priv = PrivatePem(n) /\ pub = PublicPem(n)

\* a decode that does not look at the exp claim
DecodeNoExpiry(tok, key, alg, t) ==
    /\ tok.alg = alg
    /\ IF alg = "RS256" THEN Matches(key, tok.signer) ELSE key = tok.signer

\* jwt.decode(token, key, algorithms=[alg]) returns the claims (does not raise)
DecodeOk(tok, key, alg, t) ==
    /\ tok.alg = alg
    /\ IF alg = "RS256" THEN Matches(key, tok.signer) ELSE key = tok.signer
    /\ tok.exp >= t

Last(S) == CHOOSE i \in S : \A j \in S : j <= i

\* a lookup that scans the archive before it looks at the current key
FindKeyArchiveFirst(token_kid, cur, arch) ==
    LET hits == {i \in 1..Len(arch) : Get(arch[i], "key_id") = token_kid}
    IN  IF hits # {} THEN Get(arch[Last(hits)], "public")
        ELSE IF token_kid = Get(cur, "key_id") \/ ~Truthy(token_kid)
        THEN Get(cur, "public")
        ELSE None

\* a lookup that finds no key for a token without a kid
FindKeyNoDefault(token_kid, cur, arch) ==
    IF ~Truthy(token_kid) THEN None
    ELSE IF token_kid = Get(cur, "key_id") THEN Get(cur, "public")
    ELSE LET hits == {i \in 1..Len(arch) : Get(arch[i], "key_id") = token_kid}
         IN  IF hits = {} THEN None ELSE Get(arch[Last(hits)], "public")

\* _find_key_for_token, for a token that parses
FindKeyForToken(token_kid, cur, arch) ==
    IF token_kid = Get(cur, "key_id") \/ ~Truthy(token_kid)
    THEN Get(cur, "public")
    ELSE LET hits == {i \in 1..Len(arch) : Get(arch[i], "key_id") = token_kid}
         IN  IF hits = {} THEN None ELSE Get(arch[Last(hits)], "public")

\* a verification that does not compare the type claim with the kind asked for
VerifyAnyType(tok, public_key, token_type, t) ==
    LET rs == Truthy(public_key) /\ DecodeOk(tok, public_key, "RS256", t)
        hs == DecodeOk(tok, JwtSecretKey, "HS256", t)
    IN  IF ~rs /\ ~hs THEN None ELSE tok.sub

\* a verification without the HS256 fallback
VerifyRsaOnly(tok, public_key, token_type, t) ==
    IF ~(Truthy(public_key) /\ DecodeOk(tok, public_key, "RS256", t)) THEN None
    ELSE IF tok.type # token_type THEN None
    ELSE tok.sub

\* verify_token after the key lookup
VerifyWith(tok, public_key, token_type, t) ==
    LET rs == Truthy(public_key) /\ DecodeOk(tok, public_key, "RS256", t)
        hs == DecodeOk(tok, JwtSecretKey, "HS256", t)
    IN  IF ~rs /\ ~hs THEN None
        ELSE IF tok.type # token_type THEN None
        ELSE tok.sub

\* the JWTError of jwt.decode(token, key, algorithms=[alg]): the algorithm and
\* the signature are checked before the exp claim; None when it returns
DecodeError(tok, key, alg, t) ==
    IF tok.alg # alg THEN "The specified alg value is not allowed"
    ELSE IF ~(IF alg = "RS256" THEN Matches(key, tok.signer) ELSE key = tok.signer)
    THEN "Signature verification failed."
    ELSE IF tok.exp < t THEN "Signature has expired."
    ELSE None

\* if payload is None: the HS256 decode is attempted
FallbackTried(tok, public_key, t) ==
    ~(Truthy(public_key) /\ DecodeError(tok, public_key, "RS256", t) = None)

\* the last logger.debug message of verify_token before it returns
LastLogged(tok, public_key, token_type, t) ==
    IF FallbackTried(tok, public_key, t) /\ DecodeError(tok, JwtSecretKey, "HS256", t) # None
    THEN "HS256 verification failed: " \o DecodeError(tok, JwtSecretKey, "HS256", t)
    ELSE IF tok.type # token_type THEN "Token type mismatch"
    ELSE IF tok.sub = None THEN "No subject found in token"
    ELSE None

GoW(w, to) == pcW' = [pcW EXCEPT ![w] = to]

\* create_access_token / create_refresh_token is called: expire is computed
IssueBegin(w, s, kind, d) ==
    /\ pcW[w] = "idle"
    /\ Scheduled(w)
    /\ args' = [args EXCEPT ![w] = [op |-> "issue", subject |-> s, type |-> kind,
                                    delta |-> d, called_at |-> now,
                                    expire |-> Expire(kind, d, now)]]
    /\ GoW(w, "issue_lock")
    /\ UNCHANGED <<now, current, archived, lock, files, modes, keysMade, budget>>
    /\ UNCHANGED rotVars
    /\ UNCHANGED <<token, publicKey, view, verified, since, restarts>>

\* get_current_keys()
GetCurrentKeys == current

\* the threads inside the body of rotate_jwt_keys
Rotating == {r \in DOMAIN pcR : pcR[r] \notin {"idle", "lock"}}

\* current_keys = get_current_keys(); jwt.encode(...)
IssueSign(w) ==
    /\ pcW[w] = "issue_lock"
    /\ Scheduled(w)
    /\ lock = NoThread
    /\ token' = [token EXCEPT ![w] =
                    SignWith(GetCurrentKeys, args[w].subject, args[w].type, args[w].expire)]
    /\ args' = [args EXCEPT ![w] = @ @@ [signed_during |-> Rotating]]
    /\ GoW(w, "holding")
    /\ UNCHANGED <<now, current, archived, lock, files, modes, keysMade, budget>>
    /\ UNCHANGED rotVars
    /\ UNCHANGED <<publicKey, view, verified, since, restarts>>

\* verify_token(token, token_type) is called
VerifyBegin(w, kind) ==
    /\ pcW[w] = "holding"
    /\ Scheduled(w)
    /\ args' = [args EXCEPT ![w] = [op |-> "verify", subject |-> args[w].subject,
                                    token_type |-> kind, called_during |-> lock,
                                    in_flight |-> {r \in DOMAIN pcR : pcR[r] # "idle"},
                                    calls_left |-> budget.calls]]
    /\ GoW(w, "verify_lock")
    /\ UNCHANGED <<now, current, archived, lock, files, modes, keysMade, budget>>
    /\ UNCHANGED rotVars
    /\ UNCHANGED <<token, publicKey, view, verified, since, restarts>>

\* public_key = _find_key_for_token(token), under _key_lock
VerifyFind(w) ==
    /\ pcW[w] = "verify_lock"
    /\ Scheduled(w)
    /\ lock = NoThread
    /\ publicKey' = [publicKey EXCEPT ![w] = FindKeyForToken(token[w].kid, current, archived)]
    /\ view' = [view EXCEPT ![w] = Registry]
    /\ GoW(w, "verify_decode")
    /\ UNCHANGED <<now, current, archived, lock, files, modes, keysMade, budget>>
    /\ UNCHANGED rotVars
    /\ UNCHANGED <<args, token, verified, since, restarts>>

\* jwt.decode with the key found, the HS256 fallback, the type and sub checks
VerifyDecode(w) ==
    /\ pcW[w] = "verify_decode"
    /\ Scheduled(w)
    /\ verified' = [verified EXCEPT ![w] =
                      VerifyWith(token[w], publicKey[w], args[w].token_type, now)]
    /\ args' = [args EXCEPT ![w] = [op |-> "verified", subject |-> args[w].subject,
                                    token_type |-> args[w].token_type,
                                    unexpired |-> token[w].exp >= now,
                                    tried_fallback |->
                                        FallbackTried(token[w], publicKey[w], now),
                                    logged |->
                                        LastLogged(token[w], publicKey[w],
                                                   args[w].token_type, now)]]
    /\ GoW(w, "verified")
    /\ UNCHANGED <<now, current, archived, lock, files, modes, keysMade, budget>>
    /\ UNCHANGED rotVars
    /\ UNCHANGED <<token, publicKey, view, since, restarts>>

\* verify_token has returned to its caller: the request is over, and the
\* thread is free for the next one
Finish(w) ==
    /\ pcW[w] = "verified"
    /\ Scheduled(w)
    /\ args' = [args EXCEPT ![w] = NoArgs]
    /\ token' = [token EXCEPT ![w] = NoToken]
    /\ publicKey' = [publicKey EXCEPT ![w] = None]
    /\ view' = [view EXCEPT ![w] = NoRegistry]
    /\ verified' = [verified EXCEPT ![w] = None]
    /\ since' = [since EXCEPT ![w] = [ok |-> 0, failed |-> 0]]
    /\ restarts' = [restarts EXCEPT ![w] = 0]
    /\ GoW(w, "idle")
    /\ UNCHANGED <<now, current, archived, lock, files, modes, keysMade, budget>>
    /\ UNCHANGED rotVars

\* tokens a client presents that this process did not issue: field None is a
\* claim the payload does not have
Foreign(alg, signer, exp, sub, type, kid) ==
    [alg |-> alg, signer |-> signer, exp |-> exp, sub |-> sub, type |-> type, kid |-> kid]

FarExp == DefaultLifetime("access")

Presented ==
    { \* issued with the shared secret before tokens carried a kid
      Foreign("HS256", JwtSecretKey, FarExp, "user-42", "access", None),
      \* the same, expired
      Foreign("HS256", JwtSecretKey, -1, "user-42", "access", None),
      \* the same, without a sub claim
      Foreign("HS256", JwtSecretKey, FarExp, None, "access", None),
      \* HS256 under a secret that is not the configured one
      Foreign("HS256", "guessed_secret", FarExp, "user-42", "access", None),
      \* signed by the start-up key, without a kid
      Foreign("RS256", PrivatePem(1), FarExp, "user-42", "access", None),
      \* signed by the start-up key, under a key id the registry never gave it
      Foreign("RS256", PrivatePem(1), FarExp, "user-42", "access", "key_elsewhere"),
      \* signed by a key pair of the client's own, claiming the key id "initial"
      Foreign("RS256", PrivatePem(0), FarExp, "user-42", "access", "initial"),
      \* a refresh token the start-up key signed in an earlier life of the
      \* process (the key files outlive it), expired since
      Foreign("RS256", PrivatePem(1), -1, "user-42", "refresh", "initial"),
      \* not a JWT: no claims can be read, no algorithm decodes it
      Foreign("malformed", None, 0, None, None, None) }

\* a request arrives with a token from the Authorization header or the cookie
Receive(w, tok) ==
    /\ pcW[w] = "idle"
    /\ Scheduled(w)
    /\ token' = [token EXCEPT ![w] = tok]
    /\ args' = [args EXCEPT ![w] = [op |-> "receive", subject |-> [str |-> tok.sub]]]
    /\ GoW(w, "holding")
    /\ UNCHANGED <<now, current, archived, lock, files, modes, keysMade, budget>>
    /\ UNCHANGED rotVars
    /\ UNCHANGED <<publicKey, view, verified, since, restarts>>

\* a get_current_keys() that hands out the registry's own dictionary
ReturnsAlias == FALSE

\* return _current_keys.copy()
ReturnsCopy == TRUE

\* a caller of get_current_keys() writes to the dictionary it was given:
\* keys["key_id"] = "tampered"
CallerWrites(w) ==
    /\ pcW[w] = "idle"
    /\ Scheduled(w)
    /\ lock = NoThread
    /\ current' = IF ReturnsCopy THEN current
                  ELSE Update(current, [key_id |-> "tampered"])
    /\ UNCHANGED <<now, archived, lock, files, modes, keysMade, budget>>
    /\ UNCHANGED rotVars
    /\ UNCHANGED workerVars

\* get_key_rotation_info(): reads both collections under _key_lock
GetKeyRotationInfo(w) ==
    /\ pcW[w] = "idle"
    /\ Scheduled(w)
    /\ lock = NoThread
    /\ UNCHANGED vars

\* the steps of rotate_jwt_keys
Rotate ==
    \/ \E r \in DOMAIN pcR : RotCall(r)
    \/ \E r \in DOMAIN pcR : RotAcquire(r)
    \/ \E r \in DOMAIN pcR : RotArchiveCurrent(r)
    \/ \E r \in DOMAIN pcR : KmArchive(r)
    \/ \E r \in DOMAIN pcR : KmGenerate(r)
    \/ \E r \in DOMAIN pcR : KmSave(r)
    \/ \E r \in DOMAIN pcR : RotInstall(r)
    \/ \E r \in DOMAIN pcR : RotTrim(r)
    \/ \E r \in DOMAIN pcR : RotReturn(r)
    \/ \E r \in DOMAIN pcR : RotExcept(r)

\* the steps of create_access_token, create_refresh_token and verify_token
Work ==
    \/ \E w \in DOMAIN pcW, s \in Subjects, kind \in Kinds, d \in Deltas :
          IssueBegin(w, s, kind, d)
    \/ \E w \in DOMAIN pcW : IssueSign(w)
    \/ \E w \in DOMAIN pcW, kind \in Kinds : VerifyBegin(w, kind)
    \/ \E w \in DOMAIN pcW : VerifyFind(w)
    \/ \E w \in DOMAIN pcW : VerifyDecode(w)
    \/ \E w \in DOMAIN pcW : Finish(w)

Next == Tick \/ Rotate \/ Work

Spec == Init /\ [][Next]_vars

InitThreads == InitWith(ThreadRotations, ThreadFaults, ThreadTime, TRUE, Rotators, Workers)
SpecThreads == InitThreads /\ [][Next]_vars

NextDeep == Tick \/ Rotate

InitDeep == InitWith(DeepRotations, DeepFaults, DeepTime, FALSE, Rotators, {})
SpecDeep == InitDeep /\ [][NextDeep]_vars

\* as many rotations, none of them met by an I/O fault, with a thread that
\* issues tokens of the configured lifetimes and verifies them between the
\* rotations
WorkEvict ==
    \/ \E w \in DOMAIN pcW, s \in Subjects, kind \in Kinds :
          IssueBegin(w, s, kind, NoDelta)
    \/ \E w \in DOMAIN pcW : IssueSign(w)
    \/ \E w \in DOMAIN pcW, kind \in Kinds : VerifyBegin(w, kind)
    \/ \E w \in DOMAIN pcW : VerifyFind(w)
    \/ \E w \in DOMAIN pcW : VerifyDecode(w)
    \/ \E w \in DOMAIN pcW : Finish(w)

NextEvict == Tick \/ Rotate \/ WorkEvict

InitEvict == InitWith(DeepRotations, 0, DeepTime, FALSE, Rotators, Workers)
SpecEvict == InitEvict /\ [][NextEvict]_vars

\* the same steps with the calls of the two threads interleaved, no I/O fault
InitOrder == InitWith(ThreadRotations, 0, ThreadTime, TRUE, Rotators, Workers)
SpecOrder == InitOrder /\ [][NextEvict]_vars

\* a file operation of key_manager.rotate_keys() (mkdir, rename, write_text,
\* chmod) on a stalled file system never returns: the calls are plain
\* blocking calls, with no timeout
IoStall(r) ==
    /\ pcR[r] \in {"km_archive", "km_save"}
    /\ Scheduled(r)
    /\ GoR(r, "stalled")
    /\ UNCHANGED <<now, current, archived, lock, files, modes, keysMade, budget>>
    /\ UNCHANGED <<newKeys, rotResult, entryReg, exitReg>>
    /\ UNCHANGED workerVars

\* the steps of a rotate_jwt_keys() call that has been made
RotStep ==
    \/ \E r \in DOMAIN pcR : RotAcquire(r)
    \/ \E r \in DOMAIN pcR : RotArchiveCurrent(r)
    \/ \E r \in DOMAIN pcR : KmArchive(r)
    \/ \E r \in DOMAIN pcR : KmGenerate(r)
    \/ \E r \in DOMAIN pcR : KmSave(r)
    \/ \E r \in DOMAIN pcR : RotInstall(r)
    \/ \E r \in DOMAIN pcR : RotTrim(r)
    \/ \E r \in DOMAIN pcR : RotReturn(r)
    \/ \E r \in DOMAIN pcR : RotExcept(r)

\* rotations only, on a file system that may stall; a thread inside
\* rotate_jwt_keys keeps being scheduled
NextLive ==
    \/ Tick
    \/ Rotate
    \/ \E r \in DOMAIN pcR : IoStall(r)

InitLive == InitWith(MaxRotations, MaxFaults, MaxTime, FALSE, Rotators, {})
SpecLive == InitLive /\ [][NextLive]_vars /\ WF_vars(RotStep)

\* the calls one after another, tokens issued with the configured lifetimes,
\* and requests that bring tokens this process did not issue
\* Rotations with save_keys taken one system call at a time: the states of
\* the key directory that another process can observe.
NextSave ==
    \/ Tick
    \/ \E r \in DOMAIN pcR : RotCall(r)
    \/ \E r \in DOMAIN pcR : RotAcquire(r)
    \/ \E r \in DOMAIN pcR : RotArchiveCurrent(r)
    \/ \E r \in DOMAIN pcR : KmArchive(r)
    \/ \E r \in DOMAIN pcR : KmGenerate(r)
    \/ \E r \in DOMAIN pcR : SaveWritePrivate(r)
    \/ \E r \in DOMAIN pcR : SaveChmod(r)
    \/ \E r \in DOMAIN pcR : SaveWritePublic(r)
    \/ \E r \in DOMAIN pcR : RotInstall(r)
    \/ \E r \in DOMAIN pcR : RotTrim(r)
    \/ \E r \in DOMAIN pcR : RotReturn(r)
    \/ \E r \in DOMAIN pcR : RotExcept(r)

InitSave == InitWith(MaxRotations, MaxFaults, MaxTime, FALSE, Rotators, {})
SpecSave == InitSave /\ [][NextSave]_vars

\* Two threads call rotate_jwt_keys() at any time, their steps interleaved.
RotatorPair == {"rotator", "rotator2"}
PairRotations == 3

InitPair == InitWith(PairRotations, ThreadFaults, ThreadTime, TRUE, RotatorPair, {})
NextPair == Tick \/ Rotate
SpecPair == InitPair /\ [][NextPair]_vars

\* The process stops between two requests and starts again: the module is
\* initialised anew from the key directory. Clients keep the tokens they hold.
MaxRestarts == 1

\* _current_keys = {"private": ..., "public": ..., "created_at": time.time(),
\*                  "key_id": "initial"}
Booted(keys, t) ==
    [private |-> keys[1], public |-> keys[2], created_at |-> t, key_id |-> "initial"]

Restart ==
    /\ \A u \in DOMAIN pcR \cup DOMAIN pcW : Resting(u)
    /\ \A w \in DOMAIN pcW : restarts[w] < MaxRestarts
    /\ archived' = <<>>
    /\ \/ \* initialize_keys() loads the key files
          /\ KeysOnDisk(files)
          /\ current' = Booted(LoadKeys(files), now)
          /\ UNCHANGED <<files, modes, keysMade, budget>>
       \/ \* no key files: a new pair is generated and saved
          /\ ~KeysOnDisk(files)
          /\ keysMade' = keysMade + 1
          /\ files' = WriteText(WriteText(files, PrivateKeyPath, PrivatePem(keysMade + 1)),
                                PublicKeyPath, PublicPem(keysMade + 1))
          /\ modes' = WriteMode(Chmod(WriteMode(modes, PrivateKeyPath), PrivateKeyPath),
                                PublicKeyPath)
          /\ current' = Booted(<<PrivatePem(keysMade + 1), PublicPem(keysMade + 1)>>, now)
          /\ UNCHANGED budget
       \/ \* no key files, and generating or saving raises: HS256 fallback
          /\ ~KeysOnDisk(files)
          /\ Fault
          /\ budget' = SpendFault
          /\ current' = EmptyDict
          /\ UNCHANGED <<files, modes, keysMade>>
    /\ restarts' = [w \in DOMAIN pcW |->
                        IF pcW[w] = "holding" THEN restarts[w] + 1 ELSE restarts[w]]
    /\ UNCHANGED <<now, lock>>
    /\ UNCHANGED rotVars
    /\ UNCHANGED <<pcW, args, token, publicKey, view, verified, since>>

NextRestart == Tick \/ Rotate \/ WorkEvict \/ Restart

SpecRestart == Init /\ [][NextRestart]_vars

\* Tokens issued and verified with every kind of expires_delta, timedelta(0)
\* included; no rotation.
AllDeltas == Deltas \cup {Delta(0)}

NextIssue ==
    \/ Tick
    \/ \E w \in DOMAIN pcW, s \in Subjects, kind \in Kinds, d \in AllDeltas :
          IssueBegin(w, s, kind, d)
    \/ \E w \in DOMAIN pcW : IssueSign(w)
    \/ \E w \in DOMAIN pcW, kind \in Kinds : VerifyBegin(w, kind)
    \/ \E w \in DOMAIN pcW : VerifyFind(w)
    \/ \E w \in DOMAIN pcW : VerifyDecode(w)
    \/ \E w \in DOMAIN pcW : Finish(w)

InitIssue == InitWith(0, 0, MaxTime, FALSE, {}, Workers)
SpecIssue == InitIssue /\ [][NextIssue]_vars

NextTokens ==
    \/ Tick
    \/ Rotate
    \/ WorkEvict
    \/ \E w \in DOMAIN pcW, tok \in Presented : Receive(w, tok)
    \/ \E w \in DOMAIN pcW : CallerWrites(w)
    \/ \E w \in DOMAIN pcW : GetKeyRotationInfo(w)

SpecTokens == Init /\ [][NextTokens]_vars

\* ============================================================= properties
Idle == \A r \in DOMAIN pcR : pcR[r] \in {"idle", "lock"}

\* the worker's verify_token returned, for the kind the token was issued as,
\* and the token had not expired when it was decoded
VerifiedInTime(w) ==
    /\ pcW[w] = "verified"
    /\ args[w].unexpired
    /\ args[w].token_type = token[w].type

Accepted(w) == verified[w] = Str(args[w].subject)

\* C1: a token issued under the current key is still accepted after exactly
\* one rotate_jwt_keys() call that succeeded, if it has not expired.
C1_RotationPreservesToken ==
    \A w \in DOMAIN pcW :
        (VerifiedInTime(w) /\ since[w] = [ok |-> 1, failed |-> 0]) => Accepted(w)

\* C2: a token is accepted until its own expiry, whatever rotate_jwt_keys()
\* calls, successful or failed, were made after it was issued.
C2_ValidUntilExpiry ==
    \A w \in DOMAIN pcW : VerifiedInTime(w) => Accepted(w)

\* C3: a rotate_jwt_keys() call that returns status "error" leaves
\* _current_keys and _archived_keys as they were when the call began.
C3_FailedRotationLeavesRegistry ==
    \A r \in DOMAIN pcR :
        rotResult[r].status = "error" => exitReg[r] = entryReg[r]

\* C4: a token verified for its own kind before its expiry, with no
\* rotate_jwt_keys() call between its issuance and its verification, yields
\* str(subject), in every registry state (bootstrapped, rotated, degraded).
C4_RoundTrip ==
    \A w \in DOMAIN pcW :
        (VerifiedInTime(w) /\ since[w] = [ok |-> 0, failed |-> 0]) => Accepted(w)

\* C4 witness: an RS256 token issued after a successful rotation, under a key
\* whose key_id an archived key shares, was verified and accepted.
C4_Witness ==
    \E w \in DOMAIN pcW :
        /\ VerifiedInTime(w)
        /\ since[w] = [ok |-> 0, failed |-> 0]
        /\ token[w].alg = "RS256"
        /\ token[w].kid # "initial"
        /\ \E i \in 1..Len(view[w].archived) : view[w].archived[i].key_id = token[w].kid
        /\ Accepted(w)

\* C5: with the threads interleaved, no token is signed while a rotation is
\* inside its body, and a token is accepted when at most one rotation
\* completed between its issuance and its verification.
C5_ConcurrentIssueVerify ==
    \A w \in DOMAIN pcW :
        /\ pcW[w] = "holding" => args[w].signed_during = {}
        /\ (VerifiedInTime(w) /\ since[w].ok <= 1) => Accepted(w)

\* the registry a complete rotation makes of the registry pre: a new current
\* key, the old key appended to the archive, the cap applied
CompleteRotation(pre, post) ==
    /\ NonEmpty(post.current)
    /\ post.current.private # Get(pre.current, "private")
    /\ \E t \in 0..budget.seconds :
          post.archived = Trimmed(IF NonEmpty(pre.current)
                                  THEN Append(pre.archived, ArchivedKey(pre.current, t))
                                  ELSE pre.archived)

\* C6: a lookup by _find_key_for_token whose call began while a rotation was
\* in progress reads either the registry as it was before that rotation or
\* the registry of the completed rotation, never a state in between.
C6_AtomicRotation ==
    \A w \in DOMAIN pcW :
        (/\ pcW[w] = "verify_decode"
         /\ args[w].called_during # NoThread
         /\ args[w].calls_left = budget.calls)
        => \/ view[w] = entryReg[args[w].called_during]
           \/ CompleteRotation(entryReg[args[w].called_during], view[w])

\* C7: outside a rotation in progress, _archived_keys holds at most 5 keys.
C7_ArchiveCapped == Idle => Len(archived) <= ArchiveCap

\* C8: no two entries of _archived_keys have the same key_id.
C8_ArchiveKeyIdsDistinct ==
    \A i, j \in 1..Len(archived) :
        i # j => archived[i].key_id # archived[j].key_id

\* C9: outside a rotation in progress there is exactly one current key, no
\* archived entry has status active, and the current key (its material, its
\* key_id) is not also in the archive.
C9_ExactlyOneActive ==
    Idle =>
        /\ NonEmpty(current)
        /\ \A i \in 1..Len(archived) :
              /\ Get(archived[i], "status") # "active"
              /\ archived[i].private # Get(current, "private")
              /\ archived[i].key_id # Get(current, "key_id")

\* C10: a successful rotation installs a key whose key_id differs from the
\* outgoing key's and from every archived key's, and returns that key_id.
C10_FreshKeyId ==
    \A r \in DOMAIN pcR :
        rotResult[r].status = "success" =>
            /\ exitReg[r].current.key_id # Get(entryReg[r].current, "key_id")
            /\ \A i \in 1..Len(exitReg[r].archived) :
                  exitReg[r].archived[i].key_id # exitReg[r].current.key_id
            /\ rotResult[r].key_id = exitReg[r].current.key_id

\* the worker's verify_token returned for a token the start-up key signed
\* (key id "initial"), and every rotate_jwt_keys() call since has succeeded
BootTokenVerified(w) ==
    /\ pcW[w] = "verified"
    /\ token[w].alg = "RS256"
    /\ token[w].kid = "initial"
    /\ since[w].failed = 0

\* C11: once 6 (one more than the cap) rotations have succeeded since a token
\* was signed with the start-up key, _find_key_for_token returns no key for
\* its key id and verify_token rejects it for either kind; after 5 or fewer
\* the lookup still returns the public key of the key that signed it.
C11_ArchiveEviction ==
    \A w \in DOMAIN pcW :
        BootTokenVerified(w) =>
            /\ since[w].ok > ArchiveCap => (publicKey[w] = None /\ verified[w] = None)
            /\ since[w].ok <= ArchiveCap => Matches(publicKey[w], token[w].signer)

\* C11 witness: an unexpired start-up token of the kind asked for was
\* rejected, no key found, right after the sixth successful rotation.
C11_Witness ==
    \E w \in DOMAIN pcW :
        /\ BootTokenVerified(w)
        /\ since[w].ok = ArchiveCap + 1
        /\ VerifiedInTime(w)
        /\ publicKey[w] = None
        /\ verified[w] = None
        /\ Len(archived) = ArchiveCap

\* C12: verify_token returns None for a token issued as one kind and verified
\* as the other, for every subject, in every registry state, whether the token
\* was signed with RS256 or with the HS256 fallback.
C12_TypeSeparation ==
    \A w \in DOMAIN pcW :
        (pcW[w] = "verified" /\ args[w].token_type # token[w].type) => verified[w] = None

\* C12 witness: a refresh token signed with the HS256 fallback, unexpired,
\* with no rotation since it was signed, was rejected as an access token.
C12_Witness ==
    \E w \in DOMAIN pcW :
        /\ pcW[w] = "verified"
        /\ token[w].type = "refresh"
        /\ args[w].token_type = "access"
        /\ token[w].alg = "HS256"
        /\ args[w].unexpired
        /\ since[w] = [ok |-> 0, failed |-> 0]
        /\ verified[w] = None

\* the token's signature is right for the key verify_token tries: the shared
\* secret for HS256, the public key the lookup returned for RS256
SignatureOk(w) ==
    \/ token[w].alg = "HS256" /\ token[w].signer = JwtSecretKey
    \/ /\ token[w].alg = "RS256"
       /\ Truthy(publicKey[w])
       /\ Matches(publicKey[w], token[w].signer)

\* C13: verify_token returns None for every token whose exp lies before the
\* second of the decode, on the RS256 path and on the HS256 fallback; it
\* returns the subject of a correctly signed token of the kind asked for whose
\* exp does not lie before that second.
C13_ExpiryBoundary ==
    \A w \in DOMAIN pcW :
        pcW[w] = "verified" =>
            /\ ~args[w].unexpired => verified[w] = None
            /\ (args[w].unexpired /\ args[w].token_type = token[w].type /\ SignatureOk(w))
                  => Accepted(w)

\* C13 witness: a correctly signed RS256 token of the kind asked for, its exp
\* one second in the past, was rejected.
C13_Witness ==
    \E w \in DOMAIN pcW :
        /\ pcW[w] = "verified"
        /\ token[w].alg = "RS256"
        /\ token[w].exp = now - 1
        /\ ~args[w].unexpired
        /\ args[w].token_type = token[w].type
        /\ SignatureOk(w)
        /\ verified[w] = None

\* the thread is inside key_manager.rotate_keys(): moving the key files,
\* generating the new pair or writing it to disk
InIo(r) == pcR[r] \in {"km_archive", "km_generate", "km_save"}

\* C14: key generation and the key-file I/O of a rotation happen while
\* _key_lock is not held, so no get_current_keys(), create_*_token() or
\* verify_token() call waits for the lock while a rotation is generating a
\* key or doing disk I/O.
C14_ReadersNeverWaitForIo ==
    \A w \in DOMAIN pcW :
        pcW[w] \in {"issue_lock", "verify_lock"} =>
            \A r \in DOMAIN pcR : InIo(r) => lock # r

\* the last call of thread r returned success and r has made no call since
LastRotationOk(r) == pcR[r] = "idle" /\ rotResult[r].status = "success"

\* the registry reg holds the outcome of r's last rotation: the key it
\* installed is current, and the key that was current when it began is the
\* last (most recently archived) entry of the archive
AfterRotation(r, reg) ==
    /\ reg.current = exitReg[r].current
    /\ reg.current.status = "active"
    /\ reg.current.private # Get(entryReg[r].current, "private")
    /\ NonEmpty(entryReg[r].current) =>
          /\ reg.archived # <<>>
          /\ reg.archived[Len(reg.archived)].private = entryReg[r].current.private
          /\ reg.archived[Len(reg.archived)].key_id = entryReg[r].current.key_id
          /\ reg.archived[Len(reg.archived)].status = "archived"

C16_NoTokenWithoutKey ==
    \A w \in DOMAIN pcW : token[w] # NoToken => token[w].alg = "RS256"

\* C17: the step of a rotation that moves the outgoing key files into
\* archive/ never sends the rotation to its error return, whatever happens
\* to the files: the rotation goes on to generate and install the new key.
C17_ArchivalBestEffort ==
    [][\A r \in DOMAIN pcR : pcR[r] = "km_archive" => pcR'[r] # "except"]_vars

\* the token's kid names no key of the registry reg
KidUnknown(tok, reg) ==
    /\ Truthy(tok.kid)
    /\ tok.kid # Get(reg.current, "key_id")
    /\ \A i \in 1..Len(reg.archived) : Get(reg.archived[i], "key_id") # tok.kid

\* C18: verify_token(T, kind) returns T's subject exactly when T is
\* unexpired, its type claim is kind, it has a subject, and its signature is
\* an RS256 one that verifies under the key its kid resolved to or an HS256
\* one under the shared secret; otherwise it returns None. A token whose kid
\* names no current or archived key gets no RSA key and can only be accepted
\* as an HS256 token.
C18_AcceptanceCondition ==
    \A w \in DOMAIN pcW :
        pcW[w] = "verified" =>
            /\ verified[w] # None <=>
                  /\ args[w].unexpired
                  /\ token[w].type = args[w].token_type
                  /\ token[w].sub # None
                  /\ SignatureOk(w)
            /\ verified[w] # None => verified[w] = token[w].sub
            /\ KidUnknown(token[w], view[w]) =>
                  /\ publicKey[w] = None
                  /\ verified[w] # None => token[w].alg = "HS256"

\* C18 witness: an unexpired access token that the current key signed, under
\* a kid the registry does not know, was verified as an access token and
\* rejected, no RSA key tried.
C18_Witness ==
    \E w \in DOMAIN pcW :
        /\ pcW[w] = "verified"
        /\ token[w].alg = "RS256"
        /\ token[w].signer = Get(view[w].current, "private")
        /\ KidUnknown(token[w], view[w])
        /\ args[w].unexpired
        /\ token[w].type = args[w].token_type
        /\ publicKey[w] = None
        /\ verified[w] = None

\* the positions of the archive entries of registry reg whose key_id is kid
Hits(kid, reg) == {i \in 1..Len(reg.archived) : Get(reg.archived[i], "key_id") = kid}

OutgoingFileMoved(r) ==
    \E f \in DOMAIN files :
        /\ f # PrivateKeyPath
        /\ files[f] = Get(entryReg[r].current, "private")

\* C20: a rotation generates the new pair, writes it to disk, moves the
\* outgoing key files to archive/ and then swaps in memory, in this order:
\* until the new pair has been generated and written, _archived_keys is as
\* it was when the rotation began and the outgoing private key file has not
\* been moved.
C20_StepOrder ==
    \A r \in DOMAIN pcR :
        InIo(r) =>
            /\ archived = entryReg[r].archived
            /\ pcR[r] # "km_archive" => ~OutgoingFileMoved(r)

\* C21: verify_token checks the signature, then the token kind, then the
\* expiry, and reports the first check that fails: a validly signed token of
\* the wrong kind is reported as a type mismatch even when it has expired, and
\* a validly signed expired token of the kind asked for is reported as
\* expired, without a try of the shared-secret fallback after the RSA key
\* verified its signature.
C21_OrderedChecks ==
    \A w \in DOMAIN pcW :
        (pcW[w] = "verified" /\ SignatureOk(w)) =>
            /\ token[w].type # args[w].token_type
                  => args[w].logged = "Token type mismatch"
            /\ (token[w].type = args[w].token_type /\ ~args[w].unexpired)
                  => /\ args[w].logged = "HS256 verification failed: Signature has expired."
                        \/ args[w].logged = "RS256 verification failed: Signature has expired."
                     /\ token[w].alg = "RS256" => ~args[w].tried_fallback

\* C22: _current_keys and _archived_keys change only in a step of a thread
\* that is inside rotate_jwt_keys holding _key_lock: issuing, verifying, the
\* key lookup, get_current_keys (and writes to the dictionary it returned)
\* and get_key_rotation_info leave both unchanged.
C22_ReadOnly ==
    [][(current' # current \/ archived' # archived) =>
          \E r \in DOMAIN pcR :
              /\ lock = r
              /\ pcR[r] \in {"archive", "install", "trim"}
              /\ pcR'[r] # pcR[r]]_vars

\* C22 witness: a token was issued and verified, no rotate_jwt_keys() call was
\* ever made, and the registry is the one of start-up.
C22_Witness ==
    \E w \in DOMAIN pcW :
        /\ pcW[w] = "verified"
        /\ Accepted(w)
        /\ token[w].kid = "initial"
        /\ budget.calls = MaxRotations
        /\ current = [private |-> PrivatePem(1), public |-> PublicPem(1),
                      created_at |-> 0, key_id |-> "initial"]
        /\ archived = <<>>

\* C23: every rotate_jwt_keys() call that was made returns, with success or
\* with an error, also when a file operation of the key store stalls.
C23_RotationTerminates ==
    \A r \in Rotators : (pcR[r] # "idle") ~> (pcR[r] = "idle")

\* all entries of the sequence but the last
Front(q) == SubSeq(q, 1, Len(q) - 1)

\* C24: a successful rotation of a registry with a current key leaves an
\* archive whose last entry is the outgoing key and whose other entries are
\* the archive it found, in the same order, without its front entry when the
\* append took the length over the cap; the entries of the archive are
\* always in the order in which they were archived.
C24_OldestFirst ==
    /\ \A r \in DOMAIN pcR :
          (/\ pcR[r] = "idle"
           /\ rotResult[r].status = "success"
           /\ NonEmpty(entryReg[r].current))
          => /\ exitReg[r].archived # <<>>
             /\ exitReg[r].archived[Len(exitReg[r].archived)].private
                   = entryReg[r].current.private
             /\ exitReg[r].archived[Len(exitReg[r].archived)].status = "archived"
             /\ Front(exitReg[r].archived) =
                   IF Len(entryReg[r].archived) + 1 > ArchiveCap
                   THEN Tail(entryReg[r].archived)
                   ELSE entryReg[r].archived
    /\ \A i, j \in 1..Len(archived) :
          i < j => archived[i].archived_at <= archived[j].archived_at

\* C24 witness: a successful rotation found a full archive; its front entry
\* is gone and the entry behind it is the new front.
C24_Witness ==
    \E r \in DOMAIN pcR :
        /\ pcR[r] = "idle"
        /\ rotResult[r].status = "success"
        /\ Len(entryReg[r].archived) = ArchiveCap
        /\ Len(exitReg[r].archived) = ArchiveCap
        /\ exitReg[r].archived[1] = entryReg[r].archived[2]
        /\ exitReg[r].archived[1] # entryReg[r].archived[1]
        /\ exitReg[r].archived[ArchiveCap].private = entryReg[r].current.private

\* the key pairs of the registry: the current one and the archived ones
RegistryKeys ==
    (IF NonEmpty(current) THEN {current} ELSE {})
        \cup {archived[i] : i \in 1..Len(archived)}

\* C25: the kid of a token the process issued is the key_id of the registry
\* key whose private material signed it, however rotations interleave with
\* the issuing; a token signed with the shared secret (HS256) carries a kid
\* that is the key_id of no key of the registry.
C25_KidNamesSigner ==
    \A w \in DOMAIN pcW :
        token[w] # NoToken =>
            IF token[w].alg = "RS256"
            THEN /\ \E k \in RegistryKeys : k.private = token[w].signer
                 /\ \A k \in RegistryKeys :
                       k.private = token[w].signer => k.key_id = token[w].kid
            ELSE /\ token[w].signer = JwtSecretKey
                 /\ \A k \in RegistryKeys : k.key_id # token[w].kid

\* C25 witness: a thread holds an RS256 token while a rotation that began
\* after the token was signed is in progress, its signer already archived
\* under the token's kid.
C25_Witness ==
    \E w \in DOMAIN pcW, r \in DOMAIN pcR :
        /\ pcW[w] = "holding"
        /\ token[w].alg = "RS256"
        /\ lock = r
        /\ current.private = token[w].signer
        /\ \E i \in 1..Len(archived) :
              /\ archived[i].private = token[w].signer
              /\ archived[i].key_id = token[w].kid
\* C26: while save_keys runs without raising, and after it returns, the
\* private key file is never on disk with permissions wider than owner-only.
NothingRaised == NonEmpty(current) /\ budget.faults = MaxFaults

C26_OwnerOnlyPrivateKey ==
    (NothingRaised /\ Exists(modes, PrivateKeyPath))
        => modes[PrivateKeyPath] = OwnerOnly

\* C27: a token issued with an expires_delta has exp = the second of the call
\* plus that delta, for zero and negative deltas too; the configured lifetime
\* is used only when no expires_delta is passed.
C27_CustomExpiryHonoured ==
    \A w \in DOMAIN pcW :
        pcW[w] = "holding" =>
            token[w].exp = args[w].called_at +
                (IF args[w].delta.given THEN args[w].delta.seconds
                 ELSE DefaultLifetime(args[w].type))

\* C28: whenever no rotation is in progress, after any successful and failed
\* rotate_jwt_keys() calls, the files at the active paths exist and hold the
\* key pair that is current in memory.
C28_DiskAgreesWithMemory ==
    (Idle /\ NonEmpty(current)) =>
        /\ KeysOnDisk(files)
        /\ LoadKeys(files) = <<current.private, current.public>>

\* C29: after a restart has reloaded the persisted key pair as the current key
\* (key id "initial"), an unexpired token that was signed with that key pair
\* before the restart is accepted.
C29_TokensSurviveRestart ==
    \A w \in DOMAIN pcW :
        ( /\ VerifiedInTime(w)
          /\ restarts[w] > 0
          /\ Get(view[w].current, "key_id") = "initial"
          /\ Get(view[w].current, "private") = token[w].signer )
            => Accepted(w)

\* the archive after a call that began with registry pre has archived the
\* outgoing key once
ArchivedOnce(pre) ==
    { IF NonEmpty(pre.current)
      THEN Append(pre.archived, ArchivedKey(pre.current, t))
      ELSE pre.archived : t \in 0..budget.seconds }

\* the registry and the active key files are what the call of thread r alone
\* has made of the registry it found when it took the lock
AloneInBody(r) ==
    LET pre == entryReg[r]
    IN  /\ lock = r
        /\ pcR[r] = "archive" => Registry = pre
        /\ pcR[r] \in {"km_archive", "km_generate", "km_save", "install", "except"} =>
              /\ current = pre.current
              /\ archived \in ArchivedOnce(pre)
        /\ pcR[r] = "trim" =>
              /\ current.private = newKeys[r][1]
              /\ archived \in ArchivedOnce(pre)
        /\ pcR[r] = "return" =>
              /\ current.private = newKeys[r][1]
              /\ CompleteRotation(pre, Registry)
        /\ pcR[r] \in {"install", "trim", "return"} =>
              /\ KeysOnDisk(files)
              /\ LoadKeys(files) = newKeys[r]

\* at most one thread is inside the body (the renames, the generation,
\* the saving); while it is there the registry and the key files change by
\* its steps only, and a call that returned success left the registry of a
\* complete rotation
RotationsSerialized ==
    /\ Cardinality(Rotating) <= 1
    /\ \A r \in Rotating : AloneInBody(r)
    /\ \A r \in DOMAIN pcR :
          LastRotationOk(r) =>
              /\ CompleteRotation(entryReg[r], exitReg[r])
              /\ \E i \in 1..keysMade : exitReg[r].current.private = PrivatePem(i)

\* every thread has been inside rotate_jwt_keys
AllHaveRotated == \A r \in DOMAIN pcR : entryReg[r] # NoRegistry

\* C30: rotate_jwt_keys() calls of several threads are serialized, and once
\* every thread has rotated each key that was current is in the archive
\* exactly once.
C30_ArchivedExactlyOnce ==
    /\ RotationsSerialized
    /\ AllHaveRotated =>
          \A i, j \in 1..Len(archived) :
              i # j => archived[i].private # archived[j].private

====
